---- MODULE Spec2Model ----
(***************************************************************************)
(* CuraBot crisis pipeline: CrisisDetector (src/crisis/detector.py) and    *)
(* AlertDispatcher with its two providers (src/alerts/*.py).               *)
(*                                                                         *)
(* Strings that the code inspects character by character (the text given   *)
(* to detect, the lexical patterns) are sequences of one-character         *)
(* strings.  Vectors are tuples of integers (the test's [0.9, 0.2] is      *)
(* <<9, 2>>): cosine similarity is scale invariant, and it is compared     *)
(* exactly, as dot/sqrt(n) with n the product of the squared norms.        *)
(***************************************************************************)
EXTENDS Integers, Sequences, FiniteSets, TLC

VARIABLES
    \* ---- CrisisDetector object
    embeddings_model,    \* TRUE iff an embedding provider was passed to __init__
    phrase_embeddings,   \* self.phrase_embeddings
    cache_file,          \* contents of CACHE_FILE on disk
    init_pc,             \* position of the _initialize_embeddings thread
    init_data,           \* local `data` of _load_from_cache: what json.load saw
    init_embeddings,     \* local `embeddings` of _initialize_embeddings
    init_trace,          \* what the thread did with the file and the provider, in order
    \* ---- a second CrisisDetector (another worker) sharing CACHE_FILE
    peer_pc,             \* position of its _initialize_embeddings thread
    peer_data,           \* its local `data`
    peer_phrase_embeddings, \* its self.phrase_embeddings
    \* ---- one detect call
    detect_pc,           \* position inside detect
    text,                \* detect's argument
    chunks,              \* local `chunks`; <<>> while _chunk_text was not called
    chunk_i,             \* index of the chunk the for loop is at
    max_score_overall,   \* local max_score_overall
    best_phrase,         \* local best_phrase
    provider,            \* what embed_query answers for each chunk of this call
    embed_calls,         \* embed_query calls made by this detect call
    semantic_failed,     \* the except branch of the semantic pass was taken
    result,              \* detect's return value
    \* ---- AlertDispatcher object and its providers
    helpline_number,     \* AlertDispatcher.helpline_number
    account_sid,         \* TwilioProvider.account_sid
    auth_token,          \* TwilioProvider.auth_token
    bot_token,           \* TelegramProvider.bot_token
    chat_id,             \* TelegramProvider.chat_id
    \* ---- one trigger_alert call
    alert_pc,            \* position inside trigger_alert
    alert_event,         \* the arguments of this trigger_alert call
    sms_data,            \* local sms_data
    telegram_data,       \* local telegram_data
    sms_success,         \* local sms_success
    telegram_success,    \* local telegram_success
    sms_channel,         \* what the SMS channel did with this call's message
    telegram_channel,    \* what the chat-bot channel did with this call's message
    calls,               \* provider calls and returns of this call, in order
    log,                 \* severities logged by trigger_alert in this call, in order
    \* ---- chat_endpoint, one request at a time
    llm,                 \* TRUE iff request.app.state.llm is set
    chat_pc,             \* position of the handler
    chat_request,        \* form fields of the request: query, user_name, user_location
    chat_reason,         \* local `reason`
    background_tasks,    \* tasks added with background_tasks.add_task, not yet run
    chat_response,       \* what the client receives
    chat_trace           \* what the handler and its tasks did for this request, in order

init_vars ==
    <<embeddings_model, phrase_embeddings, cache_file, init_pc, init_data,
      init_embeddings, init_trace>>

peer_vars == <<peer_pc, peer_data, peer_phrase_embeddings>>

detect_locals ==
    <<detect_pc, text, chunks, chunk_i, max_score_overall, best_phrase, provider,
      embed_calls, semantic_failed, result>>

detector_vars == <<init_vars, peer_vars, detect_locals>>

dispatcher_vars ==
    <<helpline_number, account_sid, auth_token, bot_token, chat_id, alert_pc,
      alert_event, sms_data, telegram_data, sms_success, telegram_success, sms_channel,
      telegram_channel, calls, log>>

chat_vars ==
    <<llm, chat_pc, chat_request, chat_reason, background_tasks, chat_response, chat_trace>>

vars == <<detector_vars, dispatcher_vars, chat_vars>>

None == "None"

\* Python truthiness of an Optional[str]
Truthy(x) == x # None /\ x # ""

Min(a, b) == IF a <= b THEN a ELSE b

(***************************************************************************)
(* CrisisDetector: constants of __init__                                   *)
(***************************************************************************)
crisis_keywords ==
    << <<"k", "i", "l", "l", " ", "m", "y", "s", "e", "l", "f">>,
       <<"s", "u", "i", "c", "i", "d">>,
       <<"e", "n", "d", " ", "m", "y", " ", "l", "i", "f", "e">>,
       <<"w", "a", "n", "t", " ", "t", "o", " ", "d", "i", "e">>,
       <<"h", "u", "r", "t", " ", "m", "y", "s", "e", "l", "f">>,
       <<"s", "l", "i", "t", " ", "m", "y", " ", "w", "r", "i", "s", "t">>,
       <<"o", "v", "e", "r", "d", "o", "s", "e">>,
       <<"n", "o", " ", "r", "e", "a", "s", "o", "n", " ", "t", "o", " ", "l", "i", "v", "e">>,
       <<"b", "e", "t", "t", "e", "r", " ", "o", "f", "f", " ", "d", "e", "a", "d">>,
       <<"I", " ", "q", "u", "i", "t">> >>

semantic_phrases ==
    << "I don't want to live anymore",
       "The pain is too much to bear, I want out",
       "I'm planning to end it all",
       "Goodbye everyone, I'm done",
       "There is no hope for me",
       "I am going to jump off a bridge",
       "I have a gun and I'm going to use it" >>

LexicalReason == "User is expressing suicidal thoughts or self-harm intent"
SemanticReason == "User content indicates severe distress or crisis intent"
NoCrisis == <<FALSE, "">>
\* placeholder of `result` while detect has not returned
NoResult == <<FALSE, None>>

\* threshold = 0.85, as the fraction ThresholdNum / ThresholdDen
ThresholdNum == 85
ThresholdDen == 100

\* defaults of _chunk_text
window_size == 15
step == 10

(***************************************************************************)
(* str.lower, re.search, str.split, " ".join                               *)
(***************************************************************************)
UpperChars ==
    <<"A", "B", "C", "D", "E", "F", "G", "H", "I", "J", "K", "L", "M", "N", "O",
      "P", "Q", "R", "S", "T", "U", "V", "W", "X", "Y", "Z">>
LowerChars ==
    <<"a", "b", "c", "d", "e", "f", "g", "h", "i", "j", "k", "l", "m", "n", "o",
      "p", "q", "r", "s", "t", "u", "v", "w", "x", "y", "z">>

LowerChar(c) ==
    IF \E k \in 1..Len(UpperChars) : UpperChars[k] = c
    THEN LowerChars[CHOOSE k \in 1..Len(UpperChars) : UpperChars[k] = c]
    ELSE c

UpperChar(c) ==
    IF \E k \in 1..Len(LowerChars) : LowerChars[k] = c
    THEN UpperChars[CHOOSE k \in 1..Len(LowerChars) : LowerChars[k] = c]
    ELSE c

\* text.lower()
lower(s) == [k \in 1..Len(s) |-> LowerChar(s[k])]
upper(s) == [k \in 1..Len(s) |-> UpperChar(s[k])]

\* re.search(pattern, s) is not None.  Every configured pattern consists of
\* letters and single spaces only, so the regular expression is a literal,
\* case-sensitive substring search (no re.IGNORECASE is passed).
re_search(pattern, s) ==
    \E k \in 1..(Len(s) - Len(pattern) + 1) :
        SubSeq(s, k, k + Len(pattern) - 1) = pattern

IsSpace(c) == c \in {" ", "\n", "\t"}

\* text.split(): the maximal runs of non-whitespace characters
RECURSIVE SplitFrom(_, _, _)
SplitFrom(s, k, cur) ==
    IF k > Len(s)
    THEN IF cur = <<>> THEN <<>> ELSE <<cur>>
    ELSE IF IsSpace(s[k])
         THEN (IF cur = <<>> THEN <<>> ELSE <<cur>>) \o SplitFrom(s, k + 1, <<>>)
         ELSE SplitFrom(s, k + 1, Append(cur, s[k]))

split(s) == SplitFrom(s, 1, <<>>)

\* " ".join(words)
RECURSIVE join(_)
join(words) ==
    IF words = <<>> THEN <<>>
    ELSE IF Len(words) = 1 THEN words[1]
    ELSE words[1] \o <<" ">> \o join(Tail(words))

\* a slip: the slice ends one word early, words[a:b - 1]
SliceOneShort(words, a, b) == SubSeq(words, a + 1, Min(b - 1, Len(words)))

\* words[a:b] (0-based, end exclusive, clipped to the list)
Slice(words, a, b) == SubSeq(words, a + 1, Min(b, Len(words)))

(***************************************************************************)
(* CrisisDetector._chunk_text                                              *)
(***************************************************************************)
\* the for loop over range(0, len(words), step), from index k on
RECURSIVE ChunkLoop(_, _)
ChunkLoop(words, k) ==
    IF k >= Len(words) THEN <<>>
    ELSE <<join(Slice(words, k, k + window_size))>>
         \o (IF k + window_size >= Len(words) THEN <<>>
             ELSE ChunkLoop(words, k + step))

\* a slip: no shortcut for short texts, the words are always re-joined
_chunk_text_always_windows(t) == ChunkLoop(split(t), 0)

_chunk_text(t) ==
    LET words == split(t) IN
    IF Len(words) <= window_size THEN <<t>> ELSE ChunkLoop(words, 0)

(***************************************************************************)
(* Cosine similarity as detect computes it                                 *)
(***************************************************************************)
RECURSIVE SumSquares(_)
SumSquares(v) == IF v = <<>> THEN 0 ELSE v[1] * v[1] + SumSquares(Tail(v))

\* np.linalg.norm(v) == 0
NormIsZero(v) == SumSquares(v) = 0

RECURSIVE DotFrom(_, _, _)
DotFrom(u, v, k) == IF k > Len(u) THEN 0 ELSE u[k] * v[k] + DotFrom(u, v, k + 1)

\* np.dot(u, v) raises ValueError when the shapes differ
DotRaises(u, v) == Len(u) # Len(v)

\* score = np.dot(u, v) / (user_norm * phrase_norm), kept as dot / sqrt(n)
Score(u, v) == [dot |-> DotFrom(u, v, 1), n |-> SumSquares(u) * SumSquares(v)]

ZeroScore == [dot |-> 0, n |-> 1]

\* score > max_score_overall, where max_score_overall >= 0 always
ScoreGreater(s, m) == s.dot > 0 /\ s.dot * s.dot * m.n > m.dot * m.dot * s.n

\* max_score_overall > threshold
AboveThreshold(s) ==
    s.dot > 0 /\ s.dot * s.dot * ThresholdDen * ThresholdDen > ThresholdNum * ThresholdNum * s.n

\* the inner for loop over zip(self.phrase_embeddings, self.semantic_phrases),
\* from pair k on; raised = an exception left the loop
RECURSIVE ScanPhrases(_, _, _, _, _)
ScanPhrases(user_vector, refs, k, max, best) ==
    IF k > Min(Len(refs), Len(semantic_phrases))
    THEN [raised |-> FALSE, max |-> max, best |-> best]
    ELSE LET phrase_vec == refs[k] IN
         IF NormIsZero(phrase_vec)
         THEN ScanPhrases(user_vector, refs, k + 1, max, best)
         ELSE IF DotRaises(user_vector, phrase_vec)
         THEN [raised |-> TRUE, max |-> max, best |-> best]
         ELSE LET score == Score(user_vector, phrase_vec) IN
              IF ScoreGreater(score, max)
              THEN ScanPhrases(user_vector, refs, k + 1, score, semantic_phrases[k])
              ELSE ScanPhrases(user_vector, refs, k + 1, max, best)

\* a slip: max_score_overall and best_phrase reset for every chunk
ChunkBodyResetMax(answer, refs, max, best) ==
    IF answer.raises THEN [raised |-> TRUE, max |-> max, best |-> best]
    ELSE IF NormIsZero(answer.vec) THEN [raised |-> FALSE, max |-> ZeroScore, best |-> ""]
    ELSE ScanPhrases(answer.vec, refs, 1, ZeroScore, "")

\* the body of `for chunk in chunks` for one chunk, given embed_query's answer
ChunkBody(answer, refs, max, best) ==
    IF answer.raises THEN [raised |-> TRUE, max |-> max, best |-> best]
    ELSE IF NormIsZero(answer.vec) THEN [raised |-> FALSE, max |-> max, best |-> best]
    ELSE ScanPhrases(answer.vec, refs, 1, max, best)

\* the regex check: some configured pattern is found in text_lower
LexicalPass(t) ==
    LET text_lower == lower(t) IN
    \E k \in 1..Len(crisis_keywords) : re_search(crisis_keywords[k], text_lower)

\* `if self.embeddings_model and self.phrase_embeddings`
SemanticEnabled(model, refs) == model /\ refs # <<>>

\* a slip: the crisis is reported without its reason
DecideNoReason(max) == IF AboveThreshold(max) THEN <<TRUE, "">> ELSE NoCrisis

\* what follows the loop: the comparison with the threshold and the returns
Decide(max) == IF AboveThreshold(max) THEN <<TRUE, SemanticReason>> ELSE NoCrisis

\* a slip: no try/except around the semantic pass, the exception leaves detect
SemanticExceptEscapes == [pc |-> "raised", result |-> NoResult]

\* `except Exception` of the semantic pass: log, then fall through to
\* `return False, ""`
SemanticExcept == [pc |-> "done", result |-> NoCrisis]

(***************************************************************************)
(* Inputs                                                                  *)
(***************************************************************************)
\* longest text, in words, given to detect
MaxWords == 26

\* a text of n one-letter words separated by single spaces
WordsText(n) == join([k \in 1..n |-> <<LowerChars[((k - 1) % Len(LowerChars)) + 1]>>])

SampleText ==
    <<"I", " ", "a", "m", " ", "f", "e", "e", "l", "i", "n", "g", " ", "o", "k",
      "a", "y", " ", "t", "o", "d", "a", "y">>

\* texts that contain a configured pattern, in three letter cases, alone and
\* inside a sentence
Contexts ==
    { <<(<<>>), (<<>>)>>, <<(<<"s", "o", " ">>), (<<" ", "n", "o", "w">>)>> }

PatternTexts ==
    { c[1] \o v \o c[2] :
        c \in Contexts,
        v \in UNION { {crisis_keywords[k], lower(crisis_keywords[k]), upper(crisis_keywords[k])} :
                        k \in 1..Len(crisis_keywords) } }

\* a short text with leading, doubled and trailing whitespace
SpacedText == <<" ", "n", "o", "t", " ", " ", "s", "o", "\n", "b", "a", "d", " ">>

\* a long text (17 words) with a longer word and irregular whitespace
LongSpacedText == <<" ", "n", "o", "t", " ", " ">> \o WordsText(window_size + 1) \o <<"\n">>

\* texts without any pattern: empty, short, and around and beyond the window
PlainTexts ==
    {SampleText, SpacedText, LongSpacedText} \cup
    { WordsText(n) : n \in {m \in 0..MaxWords : m <= 1 \/ m >= window_size - 1} }

DetectTexts == PatternTexts \cup PlainTexts

Vec(v) == [raises |-> FALSE, vec |-> v]
Raise == [raises |-> TRUE, vec |-> <<>>]

\* answers of embed_query: an exception, the zero vector, two unit directions,
\* a vector of the wrong dimension
EmbedAnswers == {Raise, Vec(<<0, 0>>), Vec(<<10, 0>>), Vec(<<0, 10>>), Vec(<<1, 0, 0>>)}

\* reference vector lists embed_documents may return, one vector per phrase
RefUniform == [k \in 1..Len(semantic_phrases) |-> <<9, 2>>]
RefLast ==
    [k \in 1..Len(semantic_phrases) |->
        IF k = 1 THEN <<0, 0>> ELSE IF k = Len(semantic_phrases) THEN <<2, 9>> ELSE <<8, 5>>]
RefMalformed ==
    [k \in 1..Len(semantic_phrases) |->
        IF k = 3 THEN <<1, 0, 0>> ELSE IF k = 5 THEN <<9, 2>> ELSE <<8, 5>>]
RefLists == {RefUniform, RefLast, RefMalformed}

\* contents of the cache file
Absent == [state |-> "absent", phrases |-> <<>>, embeddings |-> <<>>]
Corrupt == [state |-> "corrupt", phrases |-> <<>>, embeddings |-> <<>>]
Entry(p, e) == [state |-> "ok", phrases |-> p, embeddings |-> e]
\* the file between open(CACHE_FILE, 'w') and the end of json.dump: empty, or
\* a proper prefix of the new entry
Partial == [state |-> "partial", phrases |-> <<>>, embeddings |-> <<>>]
\* `data` before json.load has run
NotRead == [state |-> "not read", phrases |-> <<>>, embeddings |-> <<>>]

Reverse(seq) == [k \in 1..Len(seq) |-> seq[Len(seq) + 1 - k]]

\* entries written while the phrase list was different: the same phrases in
\* another order, and the list before its last phrase was added
StalePhrases == Reverse(semantic_phrases)
OlderPhrases == SubSeq(semantic_phrases, 1, Len(semantic_phrases) - 1)
ReorderedEntry == Entry(StalePhrases, Reverse(RefLast))
OlderEntry == Entry(OlderPhrases, SubSeq(RefUniform, 1, Len(semantic_phrases) - 1))

InitialCacheFiles ==
    {Absent, Corrupt, ReorderedEntry, OlderEntry, Entry(semantic_phrases, RefLast)}

(***************************************************************************)
(* CrisisDetector: construction and the background initialization thread   *)
(***************************************************************************)
DetectIdle ==
    /\ detect_pc = "idle"
    /\ text = <<>>
    /\ chunks = <<>>
    /\ chunk_i = 0
    /\ max_score_overall = ZeroScore
    /\ best_phrase = ""
    /\ provider = <<>>
    /\ embed_calls = 0
    /\ semantic_failed = FALSE
    /\ result = NoResult

\* a slip: the thread is started whether or not a provider was given
DetectorInitAlwaysThread ==
    /\ embeddings_model \in BOOLEAN
    /\ phrase_embeddings = <<>>
    /\ cache_file \in InitialCacheFiles
    /\ init_pc = "load"
    /\ init_data = NotRead
    /\ init_embeddings = <<>>
    /\ init_trace = <<>>
    /\ DetectIdle

\* __init__: the thread is started only if a provider was given
DetectorInit ==
    /\ embeddings_model \in BOOLEAN
    /\ phrase_embeddings = <<>>
    /\ cache_file \in InitialCacheFiles
    /\ init_pc = IF embeddings_model THEN "load" ELSE "none"
    /\ init_data = NotRead
    /\ init_embeddings = <<>>
    /\ init_trace = <<>>
    /\ DetectIdle

\* a slip: the stored phrases are compared as a set, whatever their order
CacheValidAnyOrder(data) ==
    /\ data.state = "ok"
    /\ {data.phrases[k] : k \in DOMAIN data.phrases}
         = {semantic_phrases[k] : k \in DOMAIN semantic_phrases}

\* a slip: the entry is taken as soon as every stored phrase is a current one
CacheValidSubset(data) ==
    /\ data.state = "ok"
    /\ \A k \in DOMAIN data.phrases :
         \E j \in DOMAIN semantic_phrases : data.phrases[k] = semantic_phrases[j]

\* _load_from_cache returned True
CacheValid(data) == data.state = "ok" /\ data.phrases = semantic_phrases

\* _initialize_embeddings, step 1: _load_from_cache, os.path.exists
LoadExists ==
    /\ init_pc = "load"
    /\ IF cache_file.state = "absent"
       THEN /\ init_pc' = "generate"
            /\ init_trace' = Append(init_trace, "no file")
       ELSE /\ init_pc' = "read"
            /\ UNCHANGED init_trace
    /\ UNCHANGED <<embeddings_model, phrase_embeddings, cache_file, init_data, init_embeddings>>
    /\ UNCHANGED <<peer_vars, detect_locals>>

\* _load_from_cache: open, json.load, and the comparison of the phrases; a
\* file that does not parse raises, which is caught
LoadRead ==
    /\ init_pc = "read"
    /\ init_data' = cache_file
    /\ IF CacheValid(cache_file)
       THEN /\ phrase_embeddings' = cache_file.embeddings
            /\ init_pc' = "done"
            /\ init_trace' = init_trace \o <<"read", "hit">>
       ELSE /\ init_pc' = "generate"
            /\ init_trace' = init_trace \o <<"read", "miss">>
            /\ UNCHANGED phrase_embeddings
    /\ UNCHANGED <<embeddings_model, cache_file, init_embeddings>>
    /\ UNCHANGED <<peer_vars, detect_locals>>

\* a slip: the vectors are appended to self.phrase_embeddings one by one
GenerateEmbeddingsIncremental(embeddings) ==
    /\ init_pc = "generate"
    /\ embeddings # <<>>
    /\ init_embeddings' = embeddings
    /\ phrase_embeddings' = SubSeq(embeddings, 1, Len(phrase_embeddings) + 1)
    /\ init_pc' = IF phrase_embeddings' = embeddings THEN "save" ELSE "generate"
    /\ init_trace' = Append(init_trace, "generate")
    /\ UNCHANGED <<embeddings_model, cache_file, init_data>>
    /\ UNCHANGED <<peer_vars, detect_locals>>

\* a slip: _save_to_cache called outside `if embeddings:`
GenerateEmbeddingsAlwaysSaves(embeddings) ==
    /\ init_pc = "generate"
    /\ init_embeddings' = embeddings
    /\ init_trace' = Append(init_trace, "generate")
    /\ phrase_embeddings' = embeddings
    /\ init_pc' = "save"
    /\ UNCHANGED <<embeddings_model, cache_file, init_data>>
    /\ UNCHANGED <<peer_vars, detect_locals>>

\* _initialize_embeddings, step 2: _generate_embeddings returns [] on an
\* exception, and an empty list disables the semantic search
GenerateEmbeddings(embeddings) ==
    /\ init_pc = "generate"
    /\ init_embeddings' = embeddings
    /\ init_trace' = Append(init_trace, "generate")
    /\ IF embeddings # <<>>
       THEN /\ phrase_embeddings' = embeddings
            /\ init_pc' = "save"
       ELSE /\ init_pc' = "done"
            /\ UNCHANGED phrase_embeddings
    /\ UNCHANGED <<embeddings_model, cache_file, init_data>>
    /\ UNCHANGED <<peer_vars, detect_locals>>

\* a slip: a failed save switches the semantic search off again
SaveExceptDisables(refs) == [pc |-> "done", phrase_embeddings |-> <<>>]

\* `except Exception` of _save_to_cache: log, return; the thread ends
SaveExcept(refs) == [pc |-> "done", phrase_embeddings |-> refs]

\* the entry _save_to_cache writes
SavedEntry(refs) == Entry(semantic_phrases, refs)

\* what the file holds after a json.dump that ran to its end: the entry, or,
\* if another writer had the file open at the same time, possibly a mixture
DumpResults(entry, other_writing) == IF other_writing THEN {entry, Corrupt} ELSE {entry}

\* _initialize_embeddings, step 3: _save_to_cache, open(CACHE_FILE, 'w')
\* truncates the file in place
SaveOpen(opened) ==
    /\ init_pc = "save"
    /\ IF opened
       THEN /\ cache_file' = Partial
            /\ init_pc' = "dump"
            /\ init_trace' = Append(init_trace, "open w")
            /\ UNCHANGED phrase_embeddings
       ELSE /\ init_pc' = SaveExcept(phrase_embeddings).pc
            /\ phrase_embeddings' = SaveExcept(phrase_embeddings).phrase_embeddings
            /\ init_trace' = Append(init_trace, "save failed")
            /\ UNCHANGED cache_file
    /\ UNCHANGED <<embeddings_model, init_data, init_embeddings>>
    /\ UNCHANGED <<peer_vars, detect_locals>>

\* _save_to_cache: json.dump and the close of the file
SaveDump(written) ==
    /\ init_pc = "dump"
    /\ IF written
       THEN /\ cache_file' \in DumpResults(SavedEntry(phrase_embeddings), peer_pc = "dump")
            /\ init_pc' = "done"
            /\ init_trace' = Append(init_trace, "saved")
            /\ UNCHANGED phrase_embeddings
       ELSE /\ init_pc' = SaveExcept(phrase_embeddings).pc
            /\ phrase_embeddings' = SaveExcept(phrase_embeddings).phrase_embeddings
            /\ init_trace' = Append(init_trace, "save failed")
            /\ UNCHANGED cache_file
    /\ UNCHANGED <<embeddings_model, init_data, init_embeddings>>
    /\ UNCHANGED <<peer_vars, detect_locals>>

(***************************************************************************)
(* The same thread of the second detector                                  *)
(***************************************************************************)
PeerIdle ==
    /\ peer_pc = "none"
    /\ peer_data = NotRead
    /\ peer_phrase_embeddings = <<>>

PeerLoadExists ==
    /\ peer_pc = "load"
    /\ peer_pc' = IF cache_file.state = "absent" THEN "generate" ELSE "read"
    /\ UNCHANGED <<peer_data, peer_phrase_embeddings, init_vars, detect_locals>>

PeerLoadRead ==
    /\ peer_pc = "read"
    /\ peer_data' = cache_file
    /\ IF CacheValid(cache_file)
       THEN /\ peer_phrase_embeddings' = cache_file.embeddings
            /\ peer_pc' = "done"
       ELSE /\ peer_pc' = "generate"
            /\ UNCHANGED peer_phrase_embeddings
    /\ UNCHANGED <<init_vars, detect_locals>>

PeerGenerateEmbeddings(embeddings) ==
    /\ peer_pc = "generate"
    /\ IF embeddings # <<>>
       THEN /\ peer_phrase_embeddings' = embeddings
            /\ peer_pc' = "save"
       ELSE /\ peer_pc' = "done"
            /\ UNCHANGED peer_phrase_embeddings
    /\ UNCHANGED <<peer_data, init_vars, detect_locals>>

PeerSaveOpen(opened) ==
    /\ peer_pc = "save"
    /\ IF opened
       THEN /\ cache_file' = Partial
            /\ peer_pc' = "dump"
       ELSE /\ peer_pc' = "done"
            /\ UNCHANGED cache_file
    /\ UNCHANGED <<peer_data, peer_phrase_embeddings, detect_locals>>
    /\ UNCHANGED <<embeddings_model, phrase_embeddings, init_pc, init_data, init_embeddings,
                   init_trace>>

PeerSaveDump(written) ==
    /\ peer_pc = "dump"
    /\ peer_pc' = "done"
    /\ IF written
       THEN cache_file' \in DumpResults(SavedEntry(peer_phrase_embeddings), init_pc = "dump")
       ELSE UNCHANGED cache_file
    /\ UNCHANGED <<peer_data, peer_phrase_embeddings, detect_locals>>
    /\ UNCHANGED <<embeddings_model, phrase_embeddings, init_pc, init_data, init_embeddings,
                   init_trace>>

(***************************************************************************)
(* CrisisDetector.detect                                                   *)
(***************************************************************************)
DetectCall(t) ==
    /\ detect_pc = "idle"
    /\ detect_pc' = "lexical"
    /\ text' = t
    /\ UNCHANGED <<chunks, chunk_i, max_score_overall, best_phrase, provider,
                   embed_calls, semantic_failed, result>>
    /\ UNCHANGED <<init_vars, peer_vars>>

\* a slip: the text is chunked before the regex check
LexicalStepAfterChunking ==
    /\ detect_pc = "lexical"
    /\ chunks' = _chunk_text(text)
    /\ IF LexicalPass(text)
       THEN /\ result' = <<TRUE, LexicalReason>>
            /\ detect_pc' = "done"
       ELSE /\ detect_pc' = "semantic"
            /\ UNCHANGED result
    /\ UNCHANGED <<text, chunk_i, max_score_overall, best_phrase, provider,
                   embed_calls, semantic_failed>>
    /\ UNCHANGED <<init_vars, peer_vars>>

\* 1. Regex Check
LexicalStep ==
    /\ detect_pc = "lexical"
    /\ IF LexicalPass(text)
       THEN /\ result' = <<TRUE, LexicalReason>>
            /\ detect_pc' = "done"
       ELSE /\ detect_pc' = "semantic"
            /\ UNCHANGED result
    /\ UNCHANGED <<text, chunks, chunk_i, max_score_overall, best_phrase, provider,
                   embed_calls, semantic_failed>>
    /\ UNCHANGED <<init_vars, peer_vars>>

\* 2. Semantic Search Check: the guard, the chunking and the loop's locals.
\* The provider's answers for the chunks of this call are fixed here.
SemanticStart ==
    /\ detect_pc = "semantic"
    /\ IF SemanticEnabled(embeddings_model, phrase_embeddings)
       THEN /\ chunks' = _chunk_text(text)
            /\ provider' \in [1..Len(chunks') -> EmbedAnswers]
            /\ chunk_i' = 1
            /\ max_score_overall' = ZeroScore
            /\ best_phrase' = ""
            /\ detect_pc' = "embed"
            /\ UNCHANGED result
       ELSE /\ result' = NoCrisis
            /\ detect_pc' = "done"
            /\ UNCHANGED <<chunks, provider, chunk_i, max_score_overall, best_phrase>>
    /\ UNCHANGED <<text, embed_calls, semantic_failed>>
    /\ UNCHANGED <<init_vars, peer_vars>>

\* one iteration of `for chunk in chunks`: embed_query, then the comparison
\* with every reference vector; after the last chunk, the decision
EmbedQuery ==
    /\ detect_pc = "embed"
    /\ embed_calls' = embed_calls + 1
    /\ LET r == ChunkBody(provider[chunk_i], phrase_embeddings, max_score_overall, best_phrase) IN
       IF r.raised
       THEN /\ semantic_failed' = TRUE
            /\ detect_pc' = SemanticExcept.pc
            /\ result' = SemanticExcept.result
            /\ UNCHANGED <<chunk_i, max_score_overall, best_phrase>>
       ELSE /\ max_score_overall' = r.max
            /\ best_phrase' = r.best
            /\ UNCHANGED semantic_failed
            /\ IF chunk_i = Len(chunks)
               THEN /\ result' = Decide(r.max)
                    /\ detect_pc' = "done"
                    /\ UNCHANGED chunk_i
               ELSE /\ chunk_i' = chunk_i + 1
                    /\ UNCHANGED <<result, detect_pc>>
    /\ UNCHANGED <<text, chunks, provider>>
    /\ UNCHANGED <<init_vars, peer_vars>>

\* the caller takes the result; the locals of the call are gone
DetectReturn ==
    /\ detect_pc = "done"
    /\ detect_pc' = "idle"
    /\ text' = <<>>
    /\ chunks' = <<>>
    /\ chunk_i' = 0
    /\ max_score_overall' = ZeroScore
    /\ best_phrase' = ""
    /\ provider' = <<>>
    /\ embed_calls' = 0
    /\ semantic_failed' = FALSE
    /\ result' = NoResult
    /\ UNCHANGED <<init_vars, peer_vars>>

InitializeNext ==
    \/ LoadExists
    \/ LoadRead
    \/ \E e \in RefLists \cup {<<>>} : GenerateEmbeddings(e)
    \/ \E o \in BOOLEAN : SaveOpen(o)
    \/ \E w \in BOOLEAN : SaveDump(w)

PeerNext ==
    \/ PeerLoadExists
    \/ PeerLoadRead
    \/ \E e \in RefLists \cup {<<>>} : PeerGenerateEmbeddings(e)
    \/ \E o \in BOOLEAN : PeerSaveOpen(o)
    \/ \E w \in BOOLEAN : PeerSaveDump(w)

DetectNext ==
    \/ \E t \in DetectTexts : DetectCall(t)
    \/ LexicalStep
    \/ SemanticStart
    \/ EmbedQuery
    \/ DetectReturn

DetectorNext == (InitializeNext \/ DetectNext) /\ UNCHANGED <<dispatcher_vars, chat_vars>>

(***************************************************************************)
(* Alert providers.  A message is the sequence of the fragments its        *)
(* f-string concatenates.  A provider call yields [ret, raised, sent]:     *)
(* the value returned, whether an exception left send_alert, and whether   *)
(* the request reached the channel.                                        *)
(***************************************************************************)
\* what the SMS channel does with a request: messages.create returns, or raises
SmsTransports == {"created", "exception"}

\* what the chat-bot endpoint does with a request: a status code, or
\* requests.post raises
TelegramResponses == {"200", "201", "400", "500", "exception"}

NotSent == "not sent"

\* TwilioProvider.send_alert
TwilioSendAlert(sid, token, data, transport) ==
    IF ~Truthy(sid) \/ ~Truthy(token)
    THEN [ret |-> FALSE, raised |-> FALSE, sent |-> FALSE]
    ELSE IF data.phone_number = None
    THEN [ret |-> FALSE, raised |-> FALSE, sent |-> FALSE]   \* AttributeError, caught
    ELSE IF transport = "created"
    THEN [ret |-> TRUE, raised |-> FALSE, sent |-> TRUE]
    ELSE [ret |-> FALSE, raised |-> FALSE, sent |-> TRUE]    \* except Exception

\* a slip: every 2xx status taken as success (response.ok)
TelegramSendAlertAnySuccess(token, chat, data, response) ==
    IF ~Truthy(token) \/ ~Truthy(chat)
    THEN [ret |-> FALSE, raised |-> FALSE, sent |-> FALSE]
    ELSE IF response \in {"200", "201"}
    THEN [ret |-> TRUE, raised |-> FALSE, sent |-> TRUE]
    ELSE [ret |-> FALSE, raised |-> FALSE, sent |-> TRUE]

\* TelegramProvider.send_alert
TelegramSendAlert(token, chat, data, response) ==
    IF ~Truthy(token) \/ ~Truthy(chat)
    THEN [ret |-> FALSE, raised |-> FALSE, sent |-> FALSE]
    ELSE IF response = "200"
    THEN [ret |-> TRUE, raised |-> FALSE, sent |-> TRUE]
    ELSE [ret |-> FALSE, raised |-> FALSE, sent |-> TRUE]    \* other status, or except

(***************************************************************************)
(* AlertDispatcher                                                         *)
(***************************************************************************)
HelplineNumbers == {None, "", "1234567890", "+911234567890"}
Credentials == {None, "set"}

UserNames == {"Rishabh", "Asha"}
Locations == {"Pune", "Unknown"}
Reasons == {LexicalReason, SemanticReason}
ShortMessages == {"Help me"}

\* a slip: the location left out of the SMS text
SmsMessageNoLocation(user_name, reason, location, short_message) ==
    <<"CRISIS ALERT: User ", user_name, ". Reason: ", reason, ". Msg: ", short_message>>

SmsMessage(user_name, reason, location, short_message) ==
    <<"CRISIS ALERT: User ", user_name, " at ", location, ". Reason: ", reason,
      ". Msg: ", short_message>>

TelegramMessage(user_name, reason, location, short_message) ==
    <<"*CRISIS DETECTED*\n\n", "*User:* ", user_name, "\n", "*Location:* ", location,
      "\n", "*Reason:* ", reason, "\n", "*Message:* ", short_message, "\n\n",
      "Please take immediate action.">>

NoData == [message |-> <<>>]
NoEvent == [user_name |-> None, reason |-> None, location |-> None, short_message |-> None]

AlertIdle ==
    /\ alert_pc = "idle"
    /\ alert_event = NoEvent
    /\ sms_data = NoData
    /\ telegram_data = NoData
    /\ sms_success = FALSE
    /\ telegram_success = FALSE
    /\ sms_channel = NotSent
    /\ telegram_channel = NotSent
    /\ calls = <<>>
    /\ log = <<>>

\* AlertDispatcher.__init__ and the providers' __init__: all from the environment
DispatcherInit ==
    /\ helpline_number \in HelplineNumbers
    /\ account_sid \in Credentials
    /\ auth_token \in Credentials
    /\ bot_token \in Credentials
    /\ chat_id \in Credentials
    /\ AlertIdle

dispatcher_config == <<helpline_number, account_sid, auth_token, bot_token, chat_id>>

\* trigger_alert: Prepare Data
TriggerAlert(user_name, reason, location, short_message) ==
    /\ alert_pc = "idle"
    /\ alert_event' = [user_name |-> user_name, reason |-> reason, location |-> location,
                       short_message |-> short_message]
    /\ sms_data' = [phone_number |-> helpline_number,
                    message |-> SmsMessage(user_name, reason, location, short_message)]
    /\ telegram_data' = [message |-> TelegramMessage(user_name, reason, location, short_message)]
    /\ alert_pc' = "try_sms"
    /\ UNCHANGED <<sms_success, telegram_success, sms_channel, telegram_channel, calls, log>>
    /\ UNCHANGED dispatcher_config

\* a slip: `if self.helpline_number is not None`
HelplineConfiguredNotNone(number) == number # None

\* `if self.helpline_number`
HelplineConfigured(number) == Truthy(number)

\* a slip: the backup send is started together with the primary one
TrySmsConcurrent ==
    /\ alert_pc = "try_sms"
    /\ IF HelplineConfigured(helpline_number)
       THEN /\ log' = Append(log, "info")
            /\ calls' = calls \o <<"sms call", "telegram call">>
            /\ alert_pc' = "sms_send"
            /\ UNCHANGED sms_success
       ELSE /\ log' = Append(log, "warning")
            /\ sms_success' = FALSE
            /\ alert_pc' = "check_sms"
            /\ UNCHANGED calls
    /\ UNCHANGED <<alert_event, sms_data, telegram_data, telegram_success, sms_channel, telegram_channel>>
    /\ UNCHANGED dispatcher_config

\* 1. Try SMS
TrySms ==
    /\ alert_pc = "try_sms"
    /\ IF HelplineConfigured(helpline_number)
       THEN /\ log' = Append(log, "info")
            /\ calls' = Append(calls, "sms call")
            /\ alert_pc' = "sms_send"
            /\ UNCHANGED sms_success
       ELSE /\ log' = Append(log, "warning")
            /\ sms_success' = FALSE
            /\ alert_pc' = "check_sms"
            /\ UNCHANGED calls
    /\ UNCHANGED <<alert_event, sms_data, telegram_data, telegram_success, sms_channel, telegram_channel>>
    /\ UNCHANGED dispatcher_config

\* self.sms_provider.send_alert(sms_data) runs and returns
SmsSend(transport) ==
    /\ alert_pc = "sms_send"
    /\ LET r == TwilioSendAlert(account_sid, auth_token, sms_data, transport) IN
       /\ sms_channel' = IF r.sent THEN transport ELSE NotSent
       /\ IF r.raised
          THEN /\ alert_pc' = "raised"
               /\ calls' = Append(calls, "sms raise")
               /\ UNCHANGED sms_success
          ELSE /\ alert_pc' = "check_sms"
               /\ calls' = Append(calls, IF r.ret THEN "sms return true" ELSE "sms return false")
               /\ sms_success' = r.ret
    /\ UNCHANGED <<alert_event, sms_data, telegram_data, telegram_success, telegram_channel, log>>
    /\ UNCHANGED dispatcher_config

\* a slip: the backup is tried whatever the primary reported
CheckSmsAlwaysBackup ==
    /\ alert_pc = "check_sms"
    /\ log' = Append(log, "warning")
    /\ calls' = Append(calls, "telegram call")
    /\ alert_pc' = "telegram_send"
    /\ UNCHANGED <<alert_event, sms_data, telegram_data, sms_success, telegram_success, sms_channel,
                   telegram_channel>>
    /\ UNCHANGED dispatcher_config

\* 2. If SMS fails, try Telegram: `if not sms_success`
CheckSms ==
    /\ alert_pc = "check_sms"
    /\ IF ~sms_success
       THEN /\ log' = Append(log, "warning")
            /\ calls' = Append(calls, "telegram call")
            /\ alert_pc' = "telegram_send"
       ELSE /\ log' = Append(log, "info")
            /\ alert_pc' = "done"
            /\ UNCHANGED calls
    /\ UNCHANGED <<alert_event, sms_data, telegram_data, sms_success, telegram_success, sms_channel,
                   telegram_channel>>
    /\ UNCHANGED dispatcher_config

\* a slip: the critical log on the wrong branch
CriticalLoggedOnSuccess(success) == success

\* `if not telegram_success: logger.critical(...)`
CriticalLogged(success) == ~success

\* self.telegram_provider.send_alert(telegram_data) runs and returns, then
\* the check of telegram_success
TelegramSend(response) ==
    /\ alert_pc = "telegram_send"
    /\ LET r == TelegramSendAlert(bot_token, chat_id, telegram_data, response) IN
       /\ telegram_channel' = IF r.sent THEN response ELSE NotSent
       /\ IF r.raised
          THEN /\ alert_pc' = "raised"
               /\ calls' = Append(calls, "telegram raise")
               /\ UNCHANGED <<telegram_success, log>>
          ELSE /\ alert_pc' = "done"
               /\ calls' = Append(calls, IF r.ret THEN "telegram return true"
                                          ELSE "telegram return false")
               /\ telegram_success' = r.ret
               /\ log' = IF CriticalLogged(r.ret) THEN Append(log, "critical") ELSE log
    /\ UNCHANGED <<alert_event, sms_data, telegram_data, sms_success, sms_channel>>
    /\ UNCHANGED dispatcher_config

\* trigger_alert returns None; the locals of the call are gone
TriggerAlertReturn ==
    /\ alert_pc = "done"
    /\ alert_pc' = "idle"
    /\ alert_event' = NoEvent
    /\ sms_data' = NoData
    /\ telegram_data' = NoData
    /\ sms_success' = FALSE
    /\ telegram_success' = FALSE
    /\ sms_channel' = NotSent
    /\ telegram_channel' = NotSent
    /\ calls' = <<>>
    /\ log' = <<>>
    /\ UNCHANGED dispatcher_config

AlertNext ==
    \/ \E u \in UserNames, r \in Reasons, l \in Locations, m \in ShortMessages :
          TriggerAlert(u, r, l, m)
    \/ TrySms
    \/ \E transport \in SmsTransports : SmsSend(transport)
    \/ CheckSms
    \/ \E response \in TelegramResponses : TelegramSend(response)
    \/ TriggerAlertReturn

DispatcherNext == AlertNext /\ UNCHANGED <<detector_vars, chat_vars>>

(***************************************************************************)
(* chat_endpoint (api/routes.py)                                           *)
(***************************************************************************)
\* inbound messages: one that holds a configured pattern, one that does not
CrisisQuery == crisis_keywords[4]
ChatQueries == {CrisisQuery, SampleText}

\* the same message as the str handed on as short_message
QueryString(query) == IF query = CrisisQuery THEN "want to die" ELSE "I am feeling okay today"

\* what llm_with_tools.invoke and the context preparation before it can do
LlmAnswers == {"content", "tool call", "exception", "history exception"}

LlmReason == "Crisis detected by LLM"
FastCrisisResponse == "... Please contact emergency services at 911. ..."
ToolCrisisResponse == "... Please contact the Helpline at 911. ..."
StandardResponse == "final_reply"

NoRequest == [query |-> <<>>, user_name |-> None, user_location |-> None]
NoResponse == [status |-> None, reply |-> None, reasoning |-> None]
Reply(reply, reasoning) == [status |-> "200", reply |-> reply, reasoning |-> reasoning]
\* `except Exception as e: raise HTTPException(status_code=500, ...)`; it also
\* catches the HTTPException(503) raised inside the try
RouterError == [status |-> "500", reply |-> None, reasoning |-> None]

ChatIdle ==
    /\ chat_pc = "idle"
    /\ chat_request = NoRequest
    /\ chat_reason = None
    /\ background_tasks = <<>>
    /\ chat_response = NoResponse
    /\ chat_trace = <<>>

\* background_tasks.add_task(dispatcher.trigger_alert, user_name=..., ...)
AddTask(tasks, request, reason) ==
    Append(tasks, [user_name |-> request.user_name, reason |-> reason,
                   location |-> request.user_location,
                   short_message |-> QueryString(request.query)])

\* POST /chat arrives; the previous request and its tasks have ended
ChatReceive(query, user_name, user_location) ==
    /\ chat_pc \in {"idle", "responded"}
    /\ background_tasks = <<>>
    /\ alert_pc = "idle"
    /\ detect_pc = "idle"
    /\ chat_pc' = "start"
    /\ chat_request' = [query |-> query, user_name |-> user_name,
                        user_location |-> user_location]
    /\ chat_reason' = None
    /\ chat_response' = NoResponse
    /\ chat_trace' = <<>>
    /\ UNCHANGED <<llm, background_tasks, detector_vars, dispatcher_vars>>

\* `if not llm: raise HTTPException(status_code=503, ...)`
ChatCheckLlm ==
    /\ chat_pc = "start"
    /\ IF llm
       THEN /\ chat_pc' = "detect"
            /\ UNCHANGED <<chat_response, chat_trace>>
       ELSE /\ chat_pc' = "responded"
            /\ chat_response' = RouterError
            /\ chat_trace' = Append(chat_trace, "error")
    /\ UNCHANGED <<llm, chat_request, chat_reason, background_tasks>>
    /\ UNCHANGED <<detector_vars, dispatcher_vars>>

\* `if detector:` (always an object, main.py) and the call detector.detect(query)
ChatDetect ==
    /\ chat_pc = "detect"
    /\ DetectCall(chat_request.query)
    /\ chat_pc' = "detecting"
    /\ chat_trace' = Append(chat_trace, "detect")
    /\ UNCHANGED <<llm, chat_request, chat_reason, background_tasks, chat_response>>
    /\ UNCHANGED dispatcher_vars

\* detect runs inside the handler
ChatDetectStep ==
    /\ chat_pc = "detecting"
    /\ (LexicalStep \/ SemanticStart \/ EmbedQuery)
    /\ UNCHANGED <<chat_vars, dispatcher_vars>>

\* detect returns; `if is_crisis:` and the add_task of the fast path
ChatDetected ==
    /\ chat_pc = "detecting"
    /\ DetectReturn
    /\ IF result[1]
       THEN /\ chat_reason' = result[2]
            /\ background_tasks' = AddTask(background_tasks, chat_request, result[2])
            /\ chat_pc' = "fast crisis"
            /\ chat_trace' = chat_trace \o <<"crisis", "add_task">>
       ELSE /\ chat_pc' = "llm"
            /\ chat_trace' = Append(chat_trace, "clear")
            /\ UNCHANGED <<chat_reason, background_tasks>>
    /\ UNCHANGED <<llm, chat_request, chat_response>>
    /\ UNCHANGED dispatcher_vars

\* the two save_message calls and the return of a crisis reply; save_message
\* has no exception handler of its own, and the tasks of a request that ends
\* in an exception are not run
CrisisReply(saved, reply) ==
    /\ IF saved
       THEN /\ chat_response' = Reply(reply, chat_reason)
            /\ chat_trace' = Append(chat_trace, "crisis response")
            /\ UNCHANGED background_tasks
       ELSE /\ chat_response' = RouterError
            /\ chat_trace' = Append(chat_trace, "error")
            /\ background_tasks' = <<>>
    /\ chat_pc' = "responded"
    /\ UNCHANGED <<llm, chat_request, chat_reason>>
    /\ UNCHANGED <<detector_vars, dispatcher_vars>>

ChatFastCrisisReply(saved) ==
    /\ chat_pc = "fast crisis"
    /\ CrisisReply(saved, FastCrisisResponse)

\* context preparation, llm_with_tools.invoke, and what follows a plain answer
\* or a tool call
ChatInvokeLlm(answer) ==
    /\ chat_pc = "llm"
    /\ IF answer = "history exception"
       THEN /\ chat_trace' = Append(chat_trace, "error")
            /\ chat_response' = RouterError
            /\ chat_pc' = "responded"
            /\ UNCHANGED <<chat_reason, background_tasks>>
       ELSE IF answer = "exception"
       THEN /\ chat_trace' = chat_trace \o <<"llm invoke", "error">>
            /\ chat_response' = RouterError
            /\ chat_pc' = "responded"
            /\ UNCHANGED <<chat_reason, background_tasks>>
       ELSE IF answer = "tool call"
       THEN /\ chat_trace' = chat_trace \o <<"llm invoke", "add_task">>
            /\ chat_reason' = LlmReason
            /\ background_tasks' = AddTask(background_tasks, chat_request, LlmReason)
            /\ chat_pc' = "tool crisis"
            /\ UNCHANGED chat_response
       ELSE /\ chat_trace' = chat_trace \o <<"llm invoke", "standard response">>
            /\ chat_response' = Reply(StandardResponse, None)
            /\ chat_pc' = "responded"
            /\ UNCHANGED <<chat_reason, background_tasks>>
    /\ UNCHANGED <<llm, chat_request>>
    /\ UNCHANGED <<detector_vars, dispatcher_vars>>

ChatToolCrisisReply(saved) ==
    /\ chat_pc = "tool crisis"
    /\ CrisisReply(saved, ToolCrisisResponse)

\* after the response has been sent, the next task is started
RunBackgroundTask ==
    /\ chat_pc = "responded"
    /\ background_tasks # <<>>
    /\ LET task == Head(background_tasks) IN
         TriggerAlert(task.user_name, task.reason, task.location, task.short_message)
    /\ background_tasks' = Tail(background_tasks)
    /\ chat_trace' = Append(chat_trace, "trigger_alert")
    /\ UNCHANGED <<llm, chat_pc, chat_request, chat_reason, chat_response>>
    /\ UNCHANGED detector_vars

\* trigger_alert runs to its end
BackgroundTaskStep ==
    /\ \/ TrySms
       \/ \E transport \in SmsTransports : SmsSend(transport)
       \/ CheckSms
       \/ \E response \in TelegramResponses : TelegramSend(response)
       \/ TriggerAlertReturn
    /\ UNCHANGED <<chat_vars, detector_vars>>

ChatNext ==
    \/ \E q \in ChatQueries, u \in {"Rishabh"}, l \in {"Pune"} : ChatReceive(q, u, l)
    \/ ChatCheckLlm
    \/ ChatDetect
    \/ ChatDetectStep
    \/ ChatDetected
    \/ \E saved \in BOOLEAN : ChatFastCrisisReply(saved)
    \/ \E answer \in LlmAnswers : ChatInvokeLlm(answer)
    \/ \E saved \in BOOLEAN : ChatToolCrisisReply(saved)
    \/ RunBackgroundTask
    \/ BackgroundTaskStep
    \/ (InitializeNext /\ UNCHANGED <<chat_vars, dispatcher_vars>>)

(***************************************************************************)
(* Specifications: each component on its own, the other one idle           *)
(***************************************************************************)
DetectorAlone ==
    /\ DetectorInit
    /\ PeerIdle
    /\ helpline_number = None
    /\ account_sid = None
    /\ auth_token = None
    /\ bot_token = None
    /\ chat_id = None
    /\ AlertIdle
    /\ llm = FALSE
    /\ ChatIdle

DispatcherAlone ==
    /\ DispatcherInit
    /\ embeddings_model = FALSE
    /\ phrase_embeddings = <<>>
    /\ cache_file = Absent
    /\ init_pc = "none"
    /\ init_data = NotRead
    /\ init_embeddings = <<>>
    /\ init_trace = <<>>
    /\ PeerIdle
    /\ DetectIdle
    /\ llm = FALSE
    /\ ChatIdle

\* two detectors with providers start on the same cache file; no detect call
CacheAlone ==
    /\ DetectorInit
    /\ embeddings_model
    /\ peer_pc = "load"
    /\ peer_data = NotRead
    /\ peer_phrase_embeddings = <<>>
    /\ helpline_number = None
    /\ account_sid = None
    /\ auth_token = None
    /\ bot_token = None
    /\ chat_id = None
    /\ AlertIdle
    /\ llm = FALSE
    /\ ChatIdle

CacheNext == (InitializeNext \/ PeerNext) /\ UNCHANGED <<dispatcher_vars, chat_vars>>

CacheSpec == CacheAlone /\ [][CacheNext]_vars

DetectorSpec == DetectorAlone /\ [][DetectorNext]_vars

\* the service: one detector, the module's dispatcher with its credentials
\* set, the language model present or not
ChatInit ==
    /\ DetectorInit
    /\ cache_file \in {Absent, Entry(semantic_phrases, RefLast)}
    /\ PeerIdle
    /\ DispatcherInit
    /\ helpline_number \in {None, "1234567890"}
    /\ account_sid = "set"
    /\ auth_token = "set"
    /\ bot_token = "set"
    /\ chat_id = "set"
    /\ llm \in BOOLEAN
    /\ ChatIdle

ChatSpec == ChatInit /\ [][ChatNext]_vars

DispatcherSpec == DispatcherAlone /\ [][DispatcherNext]_vars

(***************************************************************************)
(* Properties                                                              *)
(***************************************************************************)
Range(seq) == {seq[k] : k \in DOMAIN seq}
Count(seq, x) == Cardinality({k \in DOMAIN seq : seq[k] = x})

\* t contains pattern p, letter case ignored on both sides
ContainsIgnoreCase(t, p) ==
    \E k \in 1..(Len(t) - Len(p) + 1) :
        \A j \in 1..Len(p) : LowerChar(t[k + j - 1]) = LowerChar(p[j])

\* C1: whenever detect has returned for a text that contains one of the
\* configured lexical patterns in any letter case, the result is
\* (true, lexical reason), with or without provider and reference vectors.
C1_EveryPatternDetected ==
    detect_pc = "done" =>
        \A k \in 1..Len(crisis_keywords) :
            ContainsIgnoreCase(text, crisis_keywords[k]) => result = <<TRUE, LexicalReason>>

PrimarySucceeded == "sms return true" \in Range(calls)

\* C2: in a trigger_alert call whose primary (SMS) send reported success, the
\* backup (Telegram) send is never invoked.
C2_NoBackupAfterPrimarySuccess ==
    (HelplineConfigured(helpline_number) /\ PrimarySucceeded) =>
        /\ "telegram call" \notin Range(calls)
        /\ telegram_channel = NotSent

C2_Witness ==
    /\ alert_pc = "done"
    /\ PrimarySucceeded
    /\ sms_channel = "created"

\* C3: in a trigger_alert call made with the helpline number unset or empty,
\* the primary provider's send is not invoked at all, and once the call is
\* over the backup send has been invoked exactly once.
C3_UnconfiguredPrimarySkipped ==
    (helpline_number \in {None, ""}) =>
        /\ "sms call" \notin Range(calls)
        /\ sms_channel = NotSent
        /\ Count(calls, "telegram call") <= 1
        /\ alert_pc = "done" => Count(calls, "telegram call") = 1

C3_Witness ==
    /\ helpline_number = ""
    /\ alert_pc = "done"
    /\ calls = <<"telegram call", "telegram return true">>

\* the embedding of chunk k fails: the provider raises, or its vector cannot
\* be compared with a reference vector
ChunkFails(k) ==
    \/ provider[k].raises
    \/ /\ ~NormIsZero(provider[k].vec)
       /\ \E r \in DOMAIN phrase_embeddings :
            ~NormIsZero(phrase_embeddings[r]) /\ DotRaises(provider[k].vec, phrase_embeddings[r])

\* cosine similarity of u and v is defined and above the threshold
SimilarityAbove(u, v) ==
    /\ ~NormIsZero(u)
    /\ ~NormIsZero(v)
    /\ ~DotRaises(u, v)
    /\ AboveThreshold(Score(u, v))

\* chunk k has similarity above the threshold to some reference vector
ChunkMatches(k) ==
    /\ ~provider[k].raises
    /\ \E r \in DOMAIN phrase_embeddings : SimilarityAbove(provider[k].vec, phrase_embeddings[r])

\* C4: if the embedding of one chunk fails and some other chunk has similarity
\* above the threshold to a reference vector, detect returns is_crisis = true,
\* wherever the failing chunk stands.
C4_FailedChunkDoesNotAbortScan ==
    (detect_pc = "done" /\ chunks # <<>>) =>
        ((\E f, m \in DOMAIN chunks : f # m /\ ChunkFails(f) /\ ChunkMatches(m))
            => result[1] = TRUE)

\* C5: with no lexical match, a provider, reference vectors and no failing
\* embedding, detect returns (true, semantic reason) iff some (chunk,
\* reference vector) pair has cosine similarity strictly above 0.85, and
\* (false, "") otherwise.
C5_SemanticIffMaxAboveThreshold ==
    (/\ detect_pc = "done"
     /\ chunks # <<>>
     /\ \A k \in DOMAIN chunks : ~ChunkFails(k))
    =>
        IF \E k \in DOMAIN chunks, r \in DOMAIN phrase_embeddings :
               SimilarityAbove(provider[k].vec, phrase_embeddings[r])
        THEN result = <<TRUE, SemanticReason>>
        ELSE result = NoCrisis

\* the last of three chunks is the only one that matches, and only the last
\* reference vector matches it
C5_Witness ==
    /\ detect_pc = "done"
    /\ Len(chunks) = 3
    /\ phrase_embeddings = RefLast
    /\ provider = <<Vec(<<10, 0>>), Vec(<<0, 0>>), Vec(<<0, 10>>)>>
    /\ result = <<TRUE, SemanticReason>>

SmsInFlight ==
    Count(calls, "sms call") >
        Count(calls, "sms return true") + Count(calls, "sms return false") + Count(calls, "sms raise")

TelegramInFlight ==
    Count(calls, "telegram call") >
        Count(calls, "telegram return true") + Count(calls, "telegram return false")
            + Count(calls, "telegram raise")

\* C6: within one trigger_alert call the backup send starts only after the
\* primary send has returned, the two are never in flight together, and each
\* send is invoked at most once.
C6_BackupAfterPrimaryNoRetry ==
    /\ ~(SmsInFlight /\ TelegramInFlight)
    /\ Count(calls, "sms call") <= 1
    /\ Count(calls, "telegram call") <= 1
    /\ \A t \in DOMAIN calls :
         calls[t] = "telegram call" =>
            \A c \in DOMAIN calls :
               calls[c] = "sms call" =>
                  \E r \in DOMAIN calls :
                     c < r /\ r < t /\ calls[r] \in {"sms return true", "sms return false"}

C6_Witness ==
    calls = <<"sms call", "sms return false", "telegram call", "telegram return false">>

\* C7: the lexical pass is over before any semantic-pass work: a call that
\* has chunked the text or called the provider is past the lexical pass and
\* found no pattern, and a lexical match returns with no chunking and no
\* provider call.
C7_LexicalBeforeSemantic ==
    /\ (chunks # <<>> \/ embed_calls > 0 \/ provider # <<>>) =>
          (detect_pc \in {"embed", "done"} /\ ~LexicalPass(text))
    /\ (detect_pc = "done" /\ LexicalPass(text)) =>
          (result = <<TRUE, LexicalReason>> /\ chunks = <<>> /\ embed_calls = 0)

\* a lexical match while the semantic pass is available
C7_Witness ==
    /\ detect_pc = "done"
    /\ result = <<TRUE, LexicalReason>>
    /\ SemanticEnabled(embeddings_model, phrase_embeddings)
    /\ embed_calls = 0

\* C8: whatever the provider does, detect never raises past its boundary and
\* returns a (bool, string) pair; if the semantic pass fails, or every chunk
\* vector is the zero vector, the result is (false, "").
C8_DetectNeverRaises ==
    /\ detect_pc \in {"idle", "lexical", "semantic", "embed", "done"}
    /\ detect_pc = "done" =>
          result \in {<<TRUE, LexicalReason>>, <<TRUE, SemanticReason>>, NoCrisis}
    /\ semantic_failed => (detect_pc = "done" /\ result = NoCrisis)
    /\ (detect_pc = "done" /\ chunks # <<>>
        /\ \A k \in DOMAIN chunks : ~provider[k].raises /\ NormIsZero(provider[k].vec))
          => result = NoCrisis

\* the provider raised on the second chunk after the first one had matched
C8_Witness ==
    /\ detect_pc = "done"
    /\ semantic_failed
    /\ embed_calls = 2
    /\ provider[2].raises
    /\ AboveThreshold(max_score_overall)

SmsReturned == Range(calls) \cap {"sms return true", "sms return false"} # {}
TelegramReturned == Range(calls) \cap {"telegram return true", "telegram return false"} # {}

\* C9: a provider's send_alert never raises; the SMS provider returns true
\* exactly when its credentials are set and messages.create returned, the
\* chat-bot provider exactly when its credentials are set and the status is 200.
C9_ProvidersReturnTrueOnlyOnAcceptance ==
    /\ "sms raise" \notin Range(calls)
    /\ "telegram raise" \notin Range(calls)
    /\ SmsReturned =>
          (sms_success <=>
              (Truthy(account_sid) /\ Truthy(auth_token) /\ sms_channel = "created"))
    /\ TelegramReturned =>
          (telegram_success <=>
              (Truthy(bot_token) /\ Truthy(chat_id) /\ telegram_channel = "200"))
    /\ (SmsReturned /\ ~(Truthy(account_sid) /\ Truthy(auth_token))) => sms_channel = NotSent
    /\ (TelegramReturned /\ ~(Truthy(bot_token) /\ Truthy(chat_id))) => telegram_channel = NotSent

\* the SMS channel raised and the chat-bot endpoint answered with another
\* success status than 200
C9_Witness ==
    /\ alert_pc = "done"
    /\ sms_channel = "exception"
    /\ telegram_channel = "201"
    /\ ~sms_success
    /\ ~telegram_success

\* C10: trigger_alert logs at critical severity exactly when the primary did
\* not succeed and the backup send returned false, and it ends by returning
\* in every outcome.
C10_CriticalIffBothFailed ==
    /\ alert_pc # "raised"
    /\ Count(log, "critical") <= 1
    /\ "critical" \in Range(log) <=>
          (~PrimarySucceeded /\ "telegram return false" \in Range(calls))
    /\ alert_pc = "done" =>
          \/ PrimarySucceeded
          \/ "telegram return true" \in Range(calls)
          \/ "critical" \in Range(log)

C10_Witness ==
    /\ alert_pc = "done"
    /\ "sms return false" \in Range(calls)
    /\ "telegram return false" \in Range(calls)
    /\ "critical" \in Range(log)

\* C11: whenever the primary provider's send has been invoked, the payload
\* handed to it carries the configured helpline number as destination and a
\* message that contains the call's user_name and location.
C11_PrimaryPayloadCarriesContext ==
    "sms call" \in Range(calls) =>
        /\ HelplineConfigured(helpline_number)
        /\ sms_data.phone_number = helpline_number
        /\ alert_event.user_name \in Range(sms_data.message)
        /\ alert_event.location \in Range(sms_data.message)

\* the scenario of test_dispatcher_context
C11_Witness ==
    /\ alert_pc = "done"
    /\ helpline_number = "1234567890"
    /\ alert_event.user_name = "Rishabh"
    /\ alert_event.location = "Pune"
    /\ calls = <<"sms call", "sms return true">>

\* C14: a detector built without a provider starts no initialization thread,
\* never holds reference vectors, never chunks or calls a provider, and
\* returns (false, "") for a text in which no pattern is found.
C14_NoProviderLexicalOnly ==
    ~embeddings_model =>
        /\ init_pc = "none"
        /\ phrase_embeddings = <<>>
        /\ chunks = <<>>
        /\ provider = <<>>
        /\ embed_calls = 0
        /\ detect_pc # "embed"
        /\ (detect_pc = "done" /\ ~LexicalPass(text)) => result = NoCrisis

\* the scenario detect("I am feeling okay today") without a provider, with a
\* valid cache file on disk
C14_Witness ==
    /\ ~embeddings_model
    /\ CacheValid(cache_file)
    /\ detect_pc = "done"
    /\ text = SampleText
    /\ result = NoCrisis

\* C15: every result detect returns has an empty reason iff is_crisis is false.
C15_ReasonEmptyIffNoCrisis ==
    detect_pc = "done" => ((result[2] = "") <=> (result[1] = FALSE))

\* a semantic match
C15_Witness ==
    /\ detect_pc = "done"
    /\ ~semantic_failed
    /\ embed_calls > 0
    /\ result = <<TRUE, SemanticReason>>

\* C16: when detect has chunked a text of at most window_size words, there is
\* exactly one chunk and it is the text itself, whitespace included.
C16_ShortTextIsOneChunk ==
    (detect_pc = "embed" /\ Len(split(text)) <= window_size) => chunks = <<text>>

\* a short text with irregular whitespace is its own single chunk
C16_Witness ==
    /\ detect_pc = "embed"
    /\ text = SpacedText
    /\ chunks = <<SpacedText>>


(***************************************************************************)
(* The initialization thread, the cache file and detect                    *)
(***************************************************************************)
\* the thread has not yet assigned self.phrase_embeddings
Preparing == init_pc \in {"load", "read", "generate"}

\* _load_from_cache took the stored entry
CacheHit == "hit" \in Range(init_trace)

\* the file the thread found: what it read, or no file
FoundFile == IF init_data = NotRead THEN Absent ELSE init_data

\* what the loop over the chunks returns for the provider's answers and the
\* reference vectors refs, from chunk c on
RECURSIVE SemanticPass(_, _, _, _, _)
SemanticPass(answers, refs, c, max, best) ==
    IF c > Len(answers) THEN Decide(max)
    ELSE LET r == ChunkBody(answers[c], refs, max, best) IN
         IF r.raised THEN SemanticExcept.result
         ELSE SemanticPass(answers, refs, c + 1, r.max, r.best)

\* C12: a detector built with a provider starts with no reference vectors and
\* detect is never blocked by the preparation thread; while the thread has not
\* assigned the vectors, detect has not called the provider and a finished call
\* has the lexical-only result; the vectors detect can see are none or one
\* complete list (the stored one or the generated one), never a part of it.
C12_DetectDuringPreparation ==
    /\ Preparing =>
         /\ phrase_embeddings = <<>>
         /\ embed_calls = 0
         /\ detect_pc # "embed"
         /\ chunks = <<>>
         /\ detect_pc = "done" =>
              result = IF LexicalPass(text) THEN <<TRUE, LexicalReason>> ELSE NoCrisis
    /\ phrase_embeddings # <<>> =>
         phrase_embeddings = IF CacheHit THEN init_data.embeddings ELSE init_embeddings
    /\ detect_pc = "idle" => ENABLED DetectCall(SampleText)
    /\ (Preparing /\ detect_pc = "semantic") => ENABLED SemanticStart

\* detect returned "no crisis" for a text without a pattern while the provider
\* had not yet been asked for the reference vectors
C12_Witness ==
    /\ embeddings_model
    /\ init_pc = "generate"
    /\ detect_pc = "done"
    /\ text = SampleText
    /\ embed_calls = 0
    /\ result = NoCrisis

\* C17: a load never observes a partially written cache file, whatever another
\* detector's save is doing.
C17_LoadNeverSeesPartialFile ==
    /\ init_data.state # "partial"
    /\ peer_data.state # "partial"

\* C18 as stated: the entry is accepted iff its phrases equal the current ones
\* in order, and after any miss the provider has recomputed the vectors and the
\* cache file holds the current phrases with them.
C18_MissAlwaysOverwritesCache ==
    /\ ~Preparing \/ init_pc = "generate" =>
         (CacheHit <=> (init_data.state = "ok" /\ init_data.phrases = semantic_phrases))
    /\ (init_pc = "done" /\ ~CacheHit) =>
         /\ "generate" \in Range(init_trace)
         /\ init_embeddings # <<>>
         /\ cache_file = Entry(semantic_phrases, init_embeddings)

\* C18, amended: the entry is accepted iff its phrases equal the current ones
\* in order; after any miss nothing stored is reused and the provider is asked
\* for all vectors; the file is overwritten with the current phrases and the
\* new vectors when the provider returned them and the write succeeded; it is
\* left as found when the provider failed or the file could not be opened, and
\* left as found or truncated when the write failed.
C18_CacheAcceptedIffPhrasesEqual ==
    /\ (init_pc \notin {"none", "load", "read"}) =>
         (CacheHit <=> (init_data.state = "ok" /\ init_data.phrases = semantic_phrases))
    /\ CacheHit => (phrase_embeddings = init_data.embeddings /\ cache_file = init_data
                    /\ "generate" \notin Range(init_trace))
    /\ (init_pc \in {"save", "dump", "done"} /\ ~CacheHit) =>
         /\ "generate" \in Range(init_trace)
         /\ phrase_embeddings = init_embeddings
    /\ (init_pc = "done" /\ "saved" \in Range(init_trace)) =>
         cache_file = Entry(semantic_phrases, init_embeddings)
    /\ (init_pc = "done" /\ ~CacheHit /\ init_embeddings = <<>>) => cache_file = FoundFile
    /\ (init_pc = "done" /\ "save failed" \in Range(init_trace)) =>
         cache_file = IF "open w" \in Range(init_trace) THEN Partial ELSE FoundFile

\* the stored phrases were the current ones in another order: the entry was
\* refused and the file now holds the current phrases with generated vectors
C18_Witness ==
    /\ init_pc = "done"
    /\ init_data = ReorderedEntry
    /\ init_embeddings = RefUniform
    /\ cache_file = Entry(semantic_phrases, RefUniform)

C20_SaveFailureSwallowed ==
    "save failed" \in Range(init_trace) =>
        /\ init_pc = "done"
        /\ init_embeddings # <<>>
        /\ phrase_embeddings = init_embeddings
        /\ SemanticEnabled(embeddings_model, phrase_embeddings)
        /\ (detect_pc = "done" /\ chunks # <<>>) =>
             result = SemanticPass(provider, init_embeddings, 1, ZeroScore, "")

\* json.dump failed, the file is left truncated, and a later detect call
\* reports a crisis from the generated vectors
C20_Witness ==
    /\ init_trace = <<"no file", "generate", "open w", "save failed">>
    /\ cache_file = Partial
    /\ phrase_embeddings = RefUniform
    /\ detect_pc = "done"
    /\ embed_calls = 1
    /\ result = <<TRUE, SemanticReason>>


(***************************************************************************)
(* The chat request path                                                   *)
(***************************************************************************)
\* C13: for every answered message detect was called exactly once, and before
\* any invocation of the language model; when detect reported a crisis, exactly
\* one trigger_alert was scheduled, it runs only after the response, the
\* language model was not invoked, and the client receives the crisis reply.
C13_ChatCrisisPath ==
    /\ chat_pc = "responded" => Count(chat_trace, "detect") = 1
    /\ \A i \in DOMAIN chat_trace :
         chat_trace[i] = "llm invoke" => \E j \in 1..(i - 1) : chat_trace[j] = "detect"
    /\ "crisis" \in Range(chat_trace) =>
         /\ Count(chat_trace, "add_task") = 1
         /\ "llm invoke" \notin Range(chat_trace)
         /\ "trigger_alert" \in Range(chat_trace) => chat_pc = "responded"
         /\ chat_pc = "responded" => chat_response = Reply(FastCrisisResponse, chat_reason)


(***************************************************************************)
(* Accesses to the cache file over the detector's life                     *)
(***************************************************************************)
\* position in init_trace of the first event e, 0 if there is none
FirstIndex(seq, e) ==
    IF e \in Range(seq) THEN CHOOSE k \in DOMAIN seq : seq[k] = e /\ \A j \in 1..(k - 1) : seq[j] # e
    ELSE 0

\* the file accesses recorded so far obey the discipline of the claim
CacheAccessDiscipline ==
    /\ Count(init_trace, "read") <= 1
    /\ Count(init_trace, "open w") <= 1
    /\ Count(init_trace, "saved") <= 1
    /\ Count(init_trace, "generate") <= 1
    /\ ("open w" \in Range(init_trace) \/ "save failed" \in Range(init_trace)) =>
         /\ ~CacheHit
         /\ "miss" \in Range(init_trace) \/ "no file" \in Range(init_trace)
         /\ FirstIndex(init_trace, "generate") > 0
         /\ \A k \in DOMAIN init_trace :
              init_trace[k] \in {"open w", "saved", "save failed"}
                 => FirstIndex(init_trace, "generate") < k
         /\ init_embeddings # <<>>
    /\ "saved" \in Range(init_trace) => "open w" \in Range(init_trace)
    /\ CacheHit =>
         /\ "generate" \notin Range(init_trace)
         /\ "open w" \notin Range(init_trace)
         /\ "save failed" \notin Range(init_trace)
         /\ init_pc = "done"
         /\ cache_file = init_data
    /\ ~embeddings_model => (init_trace = <<>> /\ cache_file \in InitialCacheFiles)

\* a step of detect: one of its locals changes
DetectStep == detect_locals' # detect_locals

\* C21: the thread reads the cache file at most once and writes it at most
\* once, a write comes only after a miss (or no file) followed by a generation
\* that returned vectors, a hit is followed by neither a provider call nor a
\* write, and no step of detect reads or writes the file.
C21_CacheReadOnceWrittenOnce ==
    /\ []CacheAccessDiscipline
    /\ [][DetectStep => UNCHANGED <<cache_file, init_data, init_trace>>]_vars

\* a stale entry was read once, the vectors were generated and written once,
\* and a detect call has since run its semantic pass
C21_Witness ==
    /\ init_data = ReorderedEntry
    /\ init_trace = <<"read", "miss", "generate", "open w", "saved">>
    /\ cache_file = SavedEntry(phrase_embeddings)
    /\ detect_pc = "done"
    /\ embed_calls > 0


(***************************************************************************)
(* Chunking of long texts                                                  *)
(***************************************************************************)
\* 0-based index of the first word of chunk c
ChunkStart(c) == (c - 1) * step

\* number of words of the text covered up to the end of chunk c
ChunkEnd(c, n) == Min(ChunkStart(c) + window_size, n)

\* chunks is the list of windows the claim describes for words
WindowsOf(words, chunk_list) ==
    LET n == Len(words) IN
    /\ chunk_list # <<>>
    /\ Len(chunk_list) <= n
    \* window c holds the consecutive words from 10(c-1), at most 15 of them
    /\ \A c \in DOMAIN chunk_list :
         /\ ChunkStart(c) < n
         /\ split(chunk_list[c]) = SubSeq(words, ChunkStart(c) + 1, ChunkEnd(c, n))
         /\ Len(split(chunk_list[c])) \in 1..window_size
    \* every word is in some chunk
    /\ \A w \in 1..n :
         \E c \in DOMAIN chunk_list : ChunkStart(c) < w /\ w <= ChunkEnd(c, n)
    \* consecutive chunks share exactly window_size - step words
    /\ \A c \in 1..(Len(chunk_list) - 1) :
         LET this == split(chunk_list[c])
             next == split(chunk_list[c + 1]) IN
         /\ ChunkEnd(c, n) - ChunkStart(c + 1) = window_size - step
         /\ Len(next) >= window_size - step
         /\ SubSeq(this, Len(this) - (window_size - step) + 1, Len(this))
              = SubSeq(next, 1, window_size - step)
    \* the last chunk ends with the last word, and no earlier chunk reaches it
    /\ ChunkEnd(Len(chunk_list), n) = n
    /\ LET last == split(chunk_list[Len(chunk_list)]) IN last[Len(last)] = words[n]
    /\ \A c \in 1..(Len(chunk_list) - 1) : ChunkStart(c) + window_size < n

\* C22: for a text of more than 15 words the chunks detect works on are the
\* windows of at most 15 consecutive words starting every 10 words: every word
\* is in some chunk, consecutive chunks overlap by 5 words, the last chunk ends
\* with the last word of the text and no chunk follows the one that reaches it.
C22_LongTextChunks ==
    (detect_pc = "embed" /\ chunk_i = 1 /\ Len(split(text)) > window_size) =>
        WindowsOf(split(text), chunks)

\* 26 words give three chunks, the last of them the six words from the 21st on
C22_Witness ==
    /\ detect_pc = "embed"
    /\ chunk_i = 1
    /\ text = WordsText(26)
    /\ Len(chunks) = 3
    /\ chunks[2] = join(SubSeq(split(text), 11, 25))
    /\ chunks[3] = join(SubSeq(split(text), 21, 26))

====
